---- MODULE Spec2Model ----
(***************************************************************************)
(* Credential manager, realtime gateway and comment anchors of the         *)
(* bible-study platform.                                                   *)
(*                                                                         *)
(*   backend/src/middleware/auth.ts  generateTokens, refreshTokens,        *)
(*                                   authMiddleware, setupSocketServer     *)
(*   backend/src/routes/auth.ts      /register, /login, /logout, /me       *)
(*   AnnotatableMarkdown             anchor creation and resolution,       *)
(*                                   grouping of comments into markers     *)
(*   StudyWeek, comments routes      the comment list of a week            *)
(*                                                                         *)
(* Time is a discrete clock.  The three lifetimes of the code (4 hours,    *)
(* 7 days, 30 days) are scaled to 1, 2 and 4 ticks, which keeps their      *)
(* order: access token < session < refresh token.                          *)
(***************************************************************************)
EXTENDS Integers, Sequences, FiniteSets, TLC

\* ---------------------------------------------------------------- bounds
\* last instant of the clock
MaxTime == 3
\* UserSession rows ever created
MaxSessions == 2
\* token pairs ever signed
MaxIssued == 3
\* socket connections ever opened on the /study namespace
MaxConns == 2
\* join-study handlers suspended on the membership query at one time
MaxPending == 2
\* rows of table comments
MaxComments == 2
\* characters of the text of a document
MaxLen == 3
\* text nodes of a document
MaxNodes == 2
\* comments of one week
MaxList == 3

\* ------------------------------------------------------ program constants
\* expiresIn: '4h' of the access token and maxAge of its cookie
AccessTTL == 1
\* expiresAt: Date.now() + 7 days of a UserSession row
SessionTTL == 2
\* expiresIn: '30d' of the refresh token and maxAge of its cookie
RefreshTTL == 4

\* ids of table users, in the order they are generated for new rows
UserIds == <<"u1", "u2">>
Users == {UserIds[i] : i \in 1..Len(UserIds)}
\* values the two environment variables JWT_ACCESS_SECRET and
\* JWT_REFRESH_SECRET can be given
Secrets == {"k1", "k2"}

Conns == 1..MaxConns
\* ids a client can send with join-study; "sx" is the id of no study
Studies == {"s1", "s2", "sx"}
\* rows of group_members joined with the studies of the group: <<user, study>>
groupMembers == {<<"u1", "s1">>, <<"u2", "s1">>, <<"u1", "s2">>}
\* the value of a property that was never assigned
Undefined == "undefined"

VARIABLES
    now,            \* new Date() / the clock jwt.verify compares exp with
    accessSecret,   \* process.env.JWT_ACCESS_SECRET
    refreshSecret,  \* process.env.JWT_REFRESH_SECRET
    users,          \* rows of table users (ids)
    sessions,       \* rows of table user_sessions
    nextSid,        \* next fresh UserSession id
    minted,         \* every token jwt.sign has produced so far
    resp,           \* the answer of the exchange under way, until it reaches
                    \* the client (NoResp when no exchange is under way)
    up,             \* the node process is running
    sock,           \* per connection id: "none", "open" or "closed"
    handshakeToken, \* socket.handshake.auth.token of the connection
    socketUser,     \* socket.userId / socket.user of the connection
    currentStudy,   \* socket.currentStudy
    rooms,          \* adapter rooms: study id -> ids of the sockets in study:<id>
    pendingJoin,    \* join-study handlers awaiting verifyStudyAccess
    lastDenied,     \* history: the connection last answered 'Access denied to study'
                    \* while no other join-study of it was under way
    emitted,        \* events the step just taken delivered, per connection
    last,           \* the gateway handler the step just taken ran
    comments,       \* rows of table comments
    activeUsers,    \* per connection: the userIds in the activeUsers state of its page
    document,       \* the text nodes under markdownRef, in document order
    selection,      \* the range of window.getSelection(), as offsets into the
                    \* text of the document (NoRange when it holds no range)
    selectedText,   \* state selectedText of AnnotatableMarkdown
    showCommentForm,\* state showCommentForm of AnnotatableMarkdown
    textAnchor,     \* the anchor last handed to onAddComment
    handled,        \* the handler of AnnotatableMarkdown the step just taken ran
    weekComments,   \* rows of table comments of the week shown (parentId null),
                    \* in the order they were created
    commentList,    \* state textAnchoredComments of StudyWeek, the prop comments
                    \* of AnnotatableMarkdown
    commentMarkers, \* state commentMarkers of AnnotatableMarkdown
    timers,         \* callbacks of setTimeout not yet run, oldest first, each with
                    \* the markers its effect grouped
    received        \* history: the last of join-study / leave-study the server
                    \* received from each connection

credVars == <<now, accessSecret, refreshSecret, users, sessions, nextSid, minted, resp>>
gwVars == <<up, sock, handshakeToken, socketUser, currentStudy, rooms, pendingJoin,
           lastDenied, emitted, last>>
dbVars == <<comments>>
clientVars == <<activeUsers>>
pageVars == <<document, selection, selectedText, showCommentForm, textAnchor, handled>>
orderVars == <<received>>
markerVars == <<weekComments, commentList, commentMarkers, timers>>
vars == <<credVars, gwVars, orderVars, dbVars, clientVars, pageVars, markerVars>>

\* ------------------------------------------------------------------ tokens
\* A cookie that is not sent (req.cookies.x is undefined).
NoToken == [userId |-> "-", sessionId |-> 0, type |-> "none", key |-> "-", exp |-> 0]
\* A string that no secret verifies.
Garbage == [userId |-> "-", sessionId |-> 0, type |-> "garbage", key |-> "-", exp |-> 0]

NoPair == [ok |-> FALSE, accessToken |-> NoToken, refreshToken |-> NoToken]

\* jwt.sign(payload, secret, {expiresIn}) at time `now`
jwtSign(userId, sessionId, type, secret, ttl) ==
    [userId |-> userId, sessionId |-> sessionId, type |-> type,
     key |-> secret, exp |-> now + ttl]

\* jwt.verify(token, secret): the signature matches the secret and the
\* token is not expired (jsonwebtoken rejects when clock >= exp).  The
\* payload's type is not looked at.
jwtVerify(token, secret) ==
    /\ token.type \notin {"none", "garbage"}
    /\ token.key = secret
    /\ now < token.exp

generateTokensShortRefresh(userId, sessionId) ==
    [ok |-> TRUE,
     accessToken |-> jwtSign(userId, sessionId, "access", accessSecret, AccessTTL),
     refreshToken |-> jwtSign(userId, sessionId, "refresh", refreshSecret, AccessTTL)]

generateTokens(userId, sessionId) ==
    [ok |-> TRUE,
     accessToken |-> jwtSign(userId, sessionId, "access", accessSecret, AccessTTL),
     refreshToken |-> jwtSign(userId, sessionId, "refresh", refreshSecret, RefreshTTL)]

\* prisma.userSession.findUnique({where: {id}})
findSession(sid) == {s \in sessions : s.id = sid}

\* the test of refreshTokens: !session || session.expiresAt < new Date()
sessionUsable(sid) ==
    \E s \in findSession(sid) : ~(s.expiresAt < now)

refreshTokensAnySession(refreshToken) ==
    IF ~jwtVerify(refreshToken, refreshSecret) THEN NoPair
    ELSE IF refreshToken.userId \notin users THEN NoPair
    ELSE generateTokens(refreshToken.userId, refreshToken.sessionId)

refreshTokens(refreshToken) ==
    IF ~jwtVerify(refreshToken, refreshSecret) THEN NoPair
    ELSE IF ~sessionUsable(refreshToken.sessionId) THEN NoPair
    ELSE IF refreshToken.userId \notin users THEN NoPair
    ELSE generateTokens(refreshToken.userId, refreshToken.sessionId)

\* Outcome of authMiddleware for the two cookies of a request.
\*   status 200 means next() was called with req.user / req.sessionId set.
authMiddleware(accessToken, refreshToken) ==
    IF accessToken.type = "none"
    THEN [status |-> 401, error |-> "No access token provided", userId |-> "-",
          sessionId |-> 0, refreshTried |-> FALSE, newTokens |-> NoPair]
    ELSE IF jwtVerify(accessToken, accessSecret)
    THEN IF accessToken.userId \notin users
         THEN [status |-> 401, error |-> "User not found", userId |-> "-",
               sessionId |-> 0, refreshTried |-> FALSE, newTokens |-> NoPair]
         ELSE [status |-> 200, error |-> "-", userId |-> accessToken.userId,
               sessionId |-> accessToken.sessionId, refreshTried |-> FALSE,
               newTokens |-> NoPair]
    ELSE IF refreshToken.type # "none" /\ refreshTokens(refreshToken).ok
    THEN LET newTokens == refreshTokens(refreshToken)
         IN  [status |-> 200, error |-> "-", userId |-> newTokens.accessToken.userId,
              sessionId |-> newTokens.accessToken.sessionId, refreshTried |-> TRUE,
              newTokens |-> newTokens]
    ELSE [status |-> 401, error |-> "Invalid or expired token", userId |-> "-",
          sessionId |-> 0, refreshTried |-> refreshToken.type # "none",
          newTokens |-> NoPair]

NoResp == [route |-> "-", refreshToken |-> NoToken, status |-> 0, error |-> "-", userId |-> "-",
           sessionId |-> 0, refreshTried |-> FALSE, newTokens |-> NoPair]

\* what a client can put in a cookie
Presentable == minted \cup {NoToken, Garbage}

\* The requests the handlers can tell apart.  authMiddleware reads the
\* refresh cookie only when the access cookie is present and fails
\* jwt.verify, and its catch block never looks at the reason of the failure:
\* Garbage stands for every access cookie that fails, and the refresh cookie
\* is enumerated only where it is read.
Requests ==
    {<<NoToken, NoToken>>}
      \cup {<<at, NoToken>> : at \in {t \in minted : jwtVerify(t, accessSecret)}}
      \cup {<<Garbage, rt>> : rt \in Presentable}

mintedBy(pair) == IF pair.ok THEN {pair.accessToken, pair.refreshToken} ELSE {}

\* ---------------------------------------------------------------- actions
\* Each handler runs as one step.  Exchanges are taken one at a time: a
\* handler starts when no answer is in flight, and Deliver ends the exchange.
CredInit ==
    /\ now = 0
    /\ accessSecret = "k1"
    /\ refreshSecret \in Secrets
    /\ users = {}
    /\ sessions = {}
    /\ nextSid = 1
    /\ minted = {}
    /\ resp = NoResp

\* POST /register: creates the user and a session, answers with a pair.
\* The request carries no id: the id of the new row is generated.
Register(u) ==
    /\ resp = NoResp
    /\ nextSid <= MaxSessions
    /\ Cardinality(minted) < 2 * MaxIssued
    /\ Cardinality(users) < Len(UserIds)
    /\ u = UserIds[Cardinality(users) + 1]
    /\ LET tokens == generateTokens(u, nextSid)
       IN  /\ users' = users \cup {u}
           /\ sessions' = sessions \cup
                 {[id |-> nextSid, userId |-> u, expiresAt |-> now + SessionTTL]}
           /\ nextSid' = nextSid + 1
           /\ minted' = minted \cup mintedBy(tokens)
           /\ resp' = [NoResp EXCEPT !.route = "register", !.status = 201,
                       !.userId = u, !.sessionId = nextSid, !.newTokens = tokens]
    /\ UNCHANGED <<now, accessSecret, refreshSecret>>
    /\ UNCHANGED <<gwVars, orderVars, dbVars, clientVars, pageVars, markerVars>>

\* POST /login
Login(u, passwordOk) ==
    /\ resp = NoResp
    /\ nextSid <= MaxSessions
    /\ Cardinality(minted) < 2 * MaxIssued
    /\ IF u \notin users \/ ~passwordOk
       THEN /\ resp' = [NoResp EXCEPT !.route = "login", !.status = 401,
                        !.error = "Invalid credentials"]
            /\ UNCHANGED <<sessions, nextSid, minted>>
       ELSE LET tokens == generateTokens(u, nextSid)
            IN  /\ sessions' = sessions \cup
                      {[id |-> nextSid, userId |-> u, expiresAt |-> now + SessionTTL]}
                /\ nextSid' = nextSid + 1
                /\ minted' = minted \cup mintedBy(tokens)
                /\ resp' = [NoResp EXCEPT !.route = "login", !.status = 200,
                            !.userId = u, !.sessionId = nextSid, !.newTokens = tokens]
    /\ UNCHANGED <<now, accessSecret, refreshSecret, users>>
    /\ UNCHANGED <<gwVars, orderVars, dbVars, clientVars, pageVars, markerVars>>

MePurgeExpired(accessToken, refreshToken) ==
    LET a == authMiddleware(accessToken, refreshToken)
    IN  /\ resp = NoResp
        /\ resp' = [route |-> "me",
                    refreshToken |-> IF a.refreshTried THEN refreshToken ELSE NoToken,
                    status |-> a.status, error |-> a.error, userId |-> a.userId,
                    sessionId |-> a.sessionId, refreshTried |-> a.refreshTried,
                    newTokens |-> a.newTokens]
        /\ minted' = minted \cup mintedBy(a.newTokens)
        /\ Cardinality(minted') <= 2 * MaxIssued
        /\ sessions' = IF a.refreshTried /\ ~a.newTokens.ok
                       THEN {s \in sessions : ~(s.id = refreshToken.sessionId /\ s.expiresAt < now)}
                       ELSE sessions
        /\ UNCHANGED <<now, accessSecret, refreshSecret, users, nextSid>>
        /\ UNCHANGED <<gwVars, orderVars, dbVars, clientVars, pageVars, markerVars>>

\* GET /me and GET /verify: authMiddleware, then the user is answered
Me(accessToken, refreshToken) ==
    LET a == authMiddleware(accessToken, refreshToken)
    IN  /\ resp = NoResp
        /\ resp' = [route |-> "me",
                    refreshToken |-> IF a.refreshTried THEN refreshToken ELSE NoToken,
                    status |-> a.status, error |-> a.error, userId |-> a.userId,
                    sessionId |-> a.sessionId, refreshTried |-> a.refreshTried,
                    newTokens |-> a.newTokens]
        /\ minted' = minted \cup mintedBy(a.newTokens)
        /\ Cardinality(minted') <= 2 * MaxIssued
        /\ UNCHANGED <<now, accessSecret, refreshSecret, users, sessions, nextSid>>
        /\ UNCHANGED <<gwVars, orderVars, dbVars, clientVars, pageVars, markerVars>>

LogoutEverySession(accessToken, refreshToken) ==
    LET a == authMiddleware(accessToken, refreshToken)
    IN  /\ resp = NoResp
        /\ resp' = [route |-> "logout",
                    refreshToken |-> IF a.refreshTried THEN refreshToken ELSE NoToken,
                    status |-> a.status, error |-> a.error, userId |-> a.userId,
                    sessionId |-> a.sessionId, refreshTried |-> a.refreshTried,
                    newTokens |-> a.newTokens]
        /\ minted' = minted \cup mintedBy(a.newTokens)
        /\ Cardinality(minted') <= 2 * MaxIssued
        /\ sessions' = IF a.status = 200
                       THEN {s \in sessions : s.userId # a.userId}
                       ELSE sessions
        /\ UNCHANGED <<now, accessSecret, refreshSecret, users, nextSid>>
        /\ UNCHANGED <<gwVars, orderVars, dbVars, clientVars, pageVars, markerVars>>

\* POST /logout: authMiddleware, then the session of req.sessionId is deleted
Logout(accessToken, refreshToken) ==
    LET a == authMiddleware(accessToken, refreshToken)
    IN  /\ resp = NoResp
        /\ resp' = [route |-> "logout",
                    refreshToken |-> IF a.refreshTried THEN refreshToken ELSE NoToken,
                    status |-> a.status, error |-> a.error, userId |-> a.userId,
                    sessionId |-> a.sessionId, refreshTried |-> a.refreshTried,
                    newTokens |-> a.newTokens]
        /\ minted' = minted \cup mintedBy(a.newTokens)
        /\ Cardinality(minted') <= 2 * MaxIssued
        /\ sessions' = IF a.status = 200
                       THEN {s \in sessions : s.id # a.sessionId}
                       ELSE sessions
        /\ UNCHANGED <<now, accessSecret, refreshSecret, users, nextSid>>
        /\ UNCHANGED <<gwVars, orderVars, dbVars, clientVars, pageVars, markerVars>>

\* the clock advances
Tick ==
    /\ resp = NoResp
    /\ now < MaxTime
    /\ now' = now + 1
    /\ UNCHANGED <<accessSecret, refreshSecret, users, sessions, nextSid, minted, resp>>
    /\ UNCHANGED <<gwVars, orderVars, dbVars, clientVars, pageVars, markerVars>>

\* the answer reaches the client and the exchange is over
Deliver ==
    /\ resp # NoResp
    /\ resp' = NoResp
    /\ UNCHANGED <<now, accessSecret, refreshSecret, users, sessions, nextSid, minted>>
    /\ UNCHANGED <<gwVars, orderVars, dbVars, clientVars, pageVars, markerVars>>

\* io.use(...): the middleware of the main namespace "/" runs for a
\* connection made to "/".  It accepts the connection when
\* socket.handshake.auth.token verifies as an access token of an existing
\* user and rejects it otherwise; there is no refresh.  No listener is
\* registered on the main namespace, so an accepted socket has no handlers
\* and is in no study room.
socketAuth(token) ==
    IF token.type = "none" THEN [ok |-> FALSE, userId |-> Undefined]
    ELSE IF ~jwtVerify(token, accessSecret) THEN [ok |-> FALSE, userId |-> Undefined]
    ELSE IF token.userId \notin users THEN [ok |-> FALSE, userId |-> Undefined]
    ELSE [ok |-> TRUE, userId |-> token.userId]

ConnectMain(token) ==
    LET a == socketAuth(token)
    IN  /\ resp = NoResp
        /\ resp' = [NoResp EXCEPT !.route = "io.use",
                       !.status = IF a.ok THEN 200 ELSE 401,
                       !.error = IF a.ok THEN "-" ELSE "Authentication failed",
                       !.userId = IF a.ok THEN a.userId ELSE "-",
                       !.sessionId = IF a.ok THEN token.sessionId ELSE 0]
        /\ UNCHANGED <<now, accessSecret, refreshSecret, users, sessions, nextSid, minted>>
        /\ UNCHANGED <<gwVars, orderVars, dbVars, clientVars, pageVars, markerVars>>

\* The handshake tokens told apart by io.use: absent, verifying, failing.
HandshakeTokens ==
    {NoToken, Garbage} \cup {t \in minted : jwtVerify(t, accessSecret)}

CredNext ==
    \/ \E u \in Users : Register(u)
    \/ \E u \in Users, ok \in BOOLEAN : Login(u, ok)
    \/ \E r \in Requests : Me(r[1], r[2])
    \/ \E r \in Requests : Logout(r[1], r[2])
    \/ \E t \in HandshakeTokens : ConnectMain(t)
    \/ Deliver
    \/ Tick

\* ------------------------------------------------------- realtime gateway
\* Each handler runs as one step up to its next await.  The events a step
\* emits are kept in `emitted` until Flush hands them to the clients; the
\* next handler starts after that.
NoEvents == [c \in Conns |-> <<>>]
\* persist: what became of the handler's write to the database ("-" when it
\* made none, else "failed", "rejected" or "done"); comment: the comment id
\* the event named or the row it created
NoLast == [op |-> "-", conn |-> 0, study |-> "-", hasAccess |-> FALSE, threw |-> FALSE,
           comment |-> 0, persist |-> "-"]

ErrorEvent(message) ==
    [name |-> "error", from |-> 0, study |-> "-", list |-> {}, message |-> message]
UserJoined(c, s) ==
    [name |-> "user-joined", from |-> c, study |-> s, list |-> {}, message |-> "-"]
UserLeft(c, s) ==
    [name |-> "user-left", from |-> c, study |-> s, list |-> {}, message |-> "-"]
UserPresence(c, s) ==
    [name |-> "user-presence", from |-> c, study |-> s, list |-> {}, message |-> "-"]

ActiveUsers(s, list) ==
    [name |-> "active-users", from |-> 0, study |-> s, list |-> list, message |-> "-"]

CommentAdded(c, id, s) ==
    [name |-> "comment-added", from |-> c, study |-> s, list |-> {id}, message |-> "-"]
CommentUpdated(c, id, s) ==
    [name |-> "comment-updated", from |-> c, study |-> s, list |-> {id}, message |-> "-"]

GwInit ==
    /\ up = TRUE
    /\ sock = [c \in Conns |-> "none"]
    /\ handshakeToken = [c \in Conns |-> NoToken]
    /\ socketUser = [c \in Conns |-> Undefined]
    /\ currentStudy = [c \in Conns |-> Undefined]
    /\ rooms = [s \in Studies |-> {}]
    /\ pendingJoin = [c \in Conns |-> {}]
    /\ lastDenied = 0
    /\ emitted = NoEvents
    /\ last = NoLast
    /\ received = [c \in Conns |-> "-"]

\* verifyStudyAccess: prisma.groupMember.findFirst({where: {userId, group:
\* {studies: {some: {id: studyId}}}}}).  A where-field whose value is
\* undefined is left out of the query by Prisma, so with userId undefined
\* the first member of any group that owns the study is found.
verifyStudyAccess(userId, studyId) ==
    IF userId = Undefined
    THEN \E m \in groupMembers : m[2] = studyId
    ELSE <<userId, studyId>> \in groupMembers

\* sockets of the namespace that are in room study:<s> (what a broadcast to
\* the room reaches and what fetchSockets returns): the adapter skips ids
\* that are no longer sockets of the namespace
socketsIn(rm, sk, s) == {c \in rm[s] : sk[c] = "open"}

\* getActiveUsersInStudy: one entry per socket of the room; reading
\* socket.user.username of a socket without user throws, the catch answers []
getActiveUsersInStudy(rm, s) ==
    IF \E c \in socketsIn(rm, sock, s) : socketUser[c] = Undefined
    THEN {}
    ELSE socketsIn(rm, sock, s)

\* socket.emit(e): reaches the client only while the connection is open
toSelf(c, e) == [d \in Conns |-> IF d = c /\ sock[c] = "open" THEN <<e>> ELSE <<>>]
\* socket.to(room).emit(e): every socket of the room except the sender
toOthers(rm, c, s, e) ==
    [d \in Conns |-> IF d # c /\ d \in socketsIn(rm, sock, s) THEN <<e>> ELSE <<>>]
\* studyNamespace.to(room).emit(e): every socket of the room, the sender
\* included when it is in the room
toRoom(rm, s, e) == [d \in Conns |-> IF d \in socketsIn(rm, sock, s) THEN <<e>> ELSE <<>>]

both(f, g) == [d \in Conns |-> f[d] \o g[d]]

\* a client connects to the namespace /study.  studyNamespace has no
\* middleware of its own (io.use registers on the main namespace only), so
\* the connection listener runs whatever the handshake carried, and
\* socket.userId / socket.user are not assigned.
Connect(c, token) ==
    /\ up
    /\ last = NoLast
    /\ sock[c] = "none"
    /\ \A d \in Conns : d < c => sock[d] # "none"
    /\ sock' = [sock EXCEPT ![c] = "open"]
    /\ handshakeToken' = [handshakeToken EXCEPT ![c] = token]
    /\ emitted' = NoEvents
    /\ last' = [NoLast EXCEPT !.op = "connect", !.conn = c]
    /\ UNCHANGED <<up, socketUser, currentStudy, rooms, pendingJoin, lastDenied>>
    /\ UNCHANGED <<credVars, dbVars, clientVars, pageVars, markerVars>>

\* what the handshake of a connection to /study carries: nothing, or an
\* access token that verifies
GatewayTokens == {NoToken} \cup {t \in minted : jwtVerify(t, accessSecret)}

PendingCount == Cardinality({p \in Conns \X Studies : p[2] \in pendingJoin[p[1]]})

\* socket.on('join-study') up to its first await: the membership query is
\* sent and the handler is suspended
JoinStudyCall(c, s) ==
    /\ up
    /\ last = NoLast
    /\ sock[c] = "open"
    /\ s \notin pendingJoin[c]
    /\ PendingCount < MaxPending
    /\ pendingJoin' = [pendingJoin EXCEPT ![c] = @ \cup {s}]
    /\ emitted' = NoEvents
    /\ last' = [NoLast EXCEPT !.op = "join-study-call", !.conn = c, !.study = s]
    /\ UNCHANGED <<up, sock, handshakeToken, socketUser, currentStudy, rooms, lastDenied>>
    /\ UNCHANGED <<credVars, dbVars, clientVars, pageVars, markerVars>>

\* socket.on('join-study') from the answer of verifyStudyAccess to its end
JoinStudyResume(c, s) ==
    /\ up
    /\ last = NoLast
    /\ s \in pendingJoin[c]
    /\ pendingJoin' = [pendingJoin EXCEPT ![c] = @ \ {s}]
    /\ LET hasAccess == verifyStudyAccess(socketUser[c], s)
           joined == [rooms EXCEPT ![s] = @ \cup {c}]
       IN  IF ~hasAccess
           THEN /\ emitted' = toSelf(c, ErrorEvent("Access denied to study"))
                /\ last' = [NoLast EXCEPT !.op = "join-study", !.conn = c, !.study = s,
                            !.hasAccess = FALSE, !.threw = FALSE]
                /\ lastDenied' = IF pendingJoin'[c] = {} THEN c ELSE lastDenied
                /\ UNCHANGED <<rooms, currentStudy>>
           ELSE /\ rooms' = joined
                /\ UNCHANGED lastDenied
                /\ currentStudy' = [currentStudy EXCEPT ![c] = s]
                /\ IF socketUser[c] = Undefined
                   THEN \* socket.user.username throws, the catch block answers
                        /\ emitted' = toSelf(c, ErrorEvent("Failed to join study"))
                        /\ last' = [NoLast EXCEPT !.op = "join-study", !.conn = c, !.study = s,
                                    !.hasAccess = TRUE, !.threw = TRUE]
                   ELSE /\ emitted' = both(toOthers(joined, c, s, UserJoined(c, s)),
                                           toSelf(c, ActiveUsers(s, getActiveUsersInStudy(joined, s))))
                        /\ last' = [NoLast EXCEPT !.op = "join-study", !.conn = c, !.study = s,
                                    !.hasAccess = TRUE, !.threw = FALSE]
    /\ UNCHANGED <<up, sock, handshakeToken, socketUser>>
    /\ UNCHANGED <<credVars, dbVars, clientVars, pageVars, markerVars>>

JoinStudyFailsDropsSocket(c, s) ==
    /\ up
    /\ last = NoLast
    /\ s \in pendingJoin[c]
    /\ pendingJoin' = [pendingJoin EXCEPT ![c] = {}]
    /\ sock' = [sock EXCEPT ![c] = "closed"]
    /\ rooms' = [r \in Studies |-> rooms[r] \ {c}]
    /\ emitted' = NoEvents
    /\ last' = [NoLast EXCEPT !.op = "join-study-error", !.conn = c, !.study = s,
                !.threw = TRUE]
    /\ UNCHANGED <<up, handshakeToken, socketUser, currentStudy, lastDenied>>
    /\ UNCHANGED <<credVars, dbVars, clientVars, pageVars, markerVars>>

\* socket.on('join-study') when the membership query rejects (the database
\* cannot be reached): verifyStudyAccess throws, the catch block answers
JoinStudyFails(c, s) ==
    /\ up
    /\ last = NoLast
    /\ s \in pendingJoin[c]
    /\ pendingJoin' = [pendingJoin EXCEPT ![c] = @ \ {s}]
    /\ emitted' = toSelf(c, ErrorEvent("Failed to join study"))
    /\ last' = [NoLast EXCEPT !.op = "join-study-error", !.conn = c, !.study = s,
                !.threw = TRUE]
    /\ UNCHANGED <<up, sock, handshakeToken, socketUser, currentStudy, rooms, lastDenied>>
    /\ UNCHANGED <<credVars, dbVars, clientVars, pageVars, markerVars>>

\* ids of table studies
ExistingStudies == {m[2] : m \in groupMembers}
\* comment bodies a client sends
Contents == {"v0", "v1"}

\* prisma.comment.create: "failed" when the database cannot be reached,
\* "rejected" when the row is refused (authorId is undefined and the column
\* is required, or studyId names no study and breaks the foreign key),
\* "done" otherwise.  The first two throw.
createOutcome(authorId, studyId, dbFails) ==
    IF dbFails THEN "failed"
    ELSE IF authorId = Undefined \/ (studyId # Undefined /\ studyId \notin ExistingStudies)
    THEN "rejected"
    ELSE "done"

\* socket.on('add-comment'), data = {studyId, content}.  The row is created
\* first; no membership is looked up.
AddComment(c, studyId, dbFails) ==
    /\ up
    /\ last = NoLast
    /\ sock[c] = "open"
    /\ LET id == Cardinality(comments) + 1
           targetStudy == IF studyId # Undefined THEN studyId ELSE currentStudy[c]
           outcome == createOutcome(socketUser[c], studyId, dbFails)
       IN  IF outcome # "done"
           THEN /\ emitted' = toSelf(c, ErrorEvent("Failed to add comment"))
                /\ last' = [NoLast EXCEPT !.op = "add-comment", !.conn = c,
                            !.study = studyId, !.threw = TRUE, !.persist = outcome]
                /\ UNCHANGED comments
           ELSE /\ Cardinality(comments) < MaxComments
                /\ comments' = comments \cup
                      {[id |-> id, authorId |-> socketUser[c], studyId |-> studyId,
                        content |-> "v0"]}
                /\ emitted' = IF targetStudy = Undefined THEN NoEvents
                              ELSE toRoom(rooms, targetStudy, CommentAdded(c, id, targetStudy))
                /\ last' = [NoLast EXCEPT !.op = "add-comment", !.conn = c,
                            !.study = studyId, !.comment = id, !.persist = "done"]
    /\ UNCHANGED <<up, sock, handshakeToken, socketUser, currentStudy, rooms,
                   pendingJoin, lastDenied>>
    /\ UNCHANGED <<credVars, clientVars, pageVars, markerVars>>

UpdateCommentAnyAuthor(c, commentId, content, fails) ==
    /\ up
    /\ last = NoLast
    /\ sock[c] = "open"
    /\ \E k \in comments : k.id = commentId
    /\ comments' = {IF k.id = commentId THEN [k EXCEPT !.content = content] ELSE k
                      : k \in comments}
    /\ emitted' = IF currentStudy[c] = Undefined THEN NoEvents
                  ELSE toRoom(rooms, currentStudy[c],
                              CommentUpdated(c, commentId, currentStudy[c]))
    /\ last' = [NoLast EXCEPT !.op = "update-comment", !.conn = c,
                !.comment = commentId, !.persist = "done"]
    /\ UNCHANGED <<up, sock, handshakeToken, socketUser, currentStudy, rooms,
                   pendingJoin, lastDenied>>
    /\ UNCHANGED <<credVars, clientVars, pageVars, markerVars>>

\* socket.on('update-comment'), data = {commentId, content}; fails tells
\* which database call rejects: "find", "update" or "none"
UpdateComment(c, commentId, content, fails) ==
    /\ up
    /\ last = NoLast
    /\ sock[c] = "open"
    /\ LET existingComment == {k \in comments : k.id = commentId}
       IN  IF fails = "find"
           THEN /\ emitted' = toSelf(c, ErrorEvent("Failed to update comment"))
                /\ last' = [NoLast EXCEPT !.op = "update-comment", !.conn = c,
                            !.comment = commentId, !.threw = TRUE]
                /\ UNCHANGED comments
           ELSE IF existingComment = {} \/ \A k \in existingComment : k.authorId # socketUser[c]
           THEN /\ emitted' = toSelf(c, ErrorEvent("Cannot update this comment"))
                /\ last' = [NoLast EXCEPT !.op = "update-comment", !.conn = c,
                            !.comment = commentId]
                /\ UNCHANGED comments
           ELSE IF fails = "update"
           THEN /\ emitted' = toSelf(c, ErrorEvent("Failed to update comment"))
                /\ last' = [NoLast EXCEPT !.op = "update-comment", !.conn = c,
                            !.comment = commentId, !.threw = TRUE, !.persist = "failed"]
                /\ UNCHANGED comments
           ELSE /\ comments' = {IF k.id = commentId THEN [k EXCEPT !.content = content] ELSE k
                                  : k \in comments}
                /\ emitted' = IF currentStudy[c] = Undefined THEN NoEvents
                              ELSE toRoom(rooms, currentStudy[c],
                                          CommentUpdated(c, commentId, currentStudy[c]))
                /\ last' = [NoLast EXCEPT !.op = "update-comment", !.conn = c,
                            !.comment = commentId, !.persist = "done"]
    /\ UNCHANGED <<up, sock, handshakeToken, socketUser, currentStudy, rooms,
                   pendingJoin, lastDenied>>
    /\ UNCHANGED <<credVars, clientVars, pageVars, markerVars>>

\* an exception that no handler catches ends the node process: every
\* connection drops and the in-memory rooms are gone
crash(op, c) ==
    /\ up' = FALSE
    /\ sock' = [d \in Conns |-> IF sock[d] = "open" THEN "closed" ELSE sock[d]]
    /\ rooms' = [s \in Studies |-> {}]
    /\ pendingJoin' = [d \in Conns |-> {}]
    /\ currentStudy' = [d \in Conns |-> Undefined]
    /\ emitted' = NoEvents
    /\ last' = [NoLast EXCEPT !.op = op, !.conn = c, !.threw = TRUE]

\* socket.on('leave-study')
LeaveStudy(c) ==
    /\ up
    /\ last = NoLast
    /\ sock[c] = "open"
    /\ IF currentStudy[c] = Undefined
       THEN /\ emitted' = NoEvents
            /\ last' = [NoLast EXCEPT !.op = "leave-study", !.conn = c]
            /\ UNCHANGED <<up, sock, currentStudy, rooms, pendingJoin>>
       ELSE IF socketUser[c] = Undefined
       THEN \* socket.user.username throws outside any try block
            crash("leave-study", c)
       ELSE /\ emitted' = toOthers(rooms, c, currentStudy[c], UserLeft(c, currentStudy[c]))
            /\ rooms' = [rooms EXCEPT ![currentStudy[c]] = @ \ {c}]
            /\ currentStudy' = [currentStudy EXCEPT ![c] = Undefined]
            /\ last' = [NoLast EXCEPT !.op = "leave-study", !.conn = c,
                        !.study = currentStudy[c]]
            /\ UNCHANGED <<up, sock, pendingJoin>>
    /\ UNCHANGED <<handshakeToken, socketUser, lastDenied>>
    /\ UNCHANGED <<credVars, dbVars, clientVars, pageVars, markerVars>>

\* socket.on('user-activity')
UserActivity(c) ==
    /\ up
    /\ last = NoLast
    /\ sock[c] = "open"
    /\ IF currentStudy[c] = Undefined
       THEN /\ emitted' = NoEvents
            /\ last' = [NoLast EXCEPT !.op = "user-activity", !.conn = c]
            /\ UNCHANGED <<up, sock, currentStudy, rooms, pendingJoin>>
       ELSE IF socketUser[c] = Undefined
       THEN \* socket.user.username throws outside any try block
            crash("user-activity", c)
       ELSE /\ emitted' = toOthers(rooms, c, currentStudy[c],
                                   UserPresence(c, currentStudy[c]))
            /\ last' = [NoLast EXCEPT !.op = "user-activity", !.conn = c,
                        !.study = currentStudy[c]]
            /\ UNCHANGED <<up, sock, currentStudy, rooms, pendingJoin>>
    /\ UNCHANGED <<handshakeToken, socketUser, lastDenied>>
    /\ UNCHANGED <<credVars, dbVars, clientVars, pageVars, markerVars>>

DisconnectAnnouncesIdle(c) ==
    /\ up
    /\ last = NoLast
    /\ sock[c] = "open"
    /\ currentStudy[c] = Undefined
    /\ sock' = [sock EXCEPT ![c] = "closed"]
    /\ rooms' = [s \in Studies |-> rooms[s] \ {c}]
    /\ emitted' = [d \in Conns |->
                     IF d # c /\ sock[d] = "open"
                     THEN <<UserLeft(c, Undefined)>> ELSE <<>>]
    /\ last' = [NoLast EXCEPT !.op = "disconnect", !.conn = c]
    /\ UNCHANGED <<up, currentStudy, pendingJoin>>
    /\ UNCHANGED <<handshakeToken, socketUser, lastDenied>>
    /\ UNCHANGED <<credVars, dbVars, clientVars, pageVars, markerVars>>

\* the connection closes: socket.io takes the socket out of all its rooms,
\* then socket.on('disconnect') runs
Disconnect(c) ==
    /\ up
    /\ last = NoLast
    /\ sock[c] = "open"
    /\ LET left == [s \in Studies |-> rooms[s] \ {c}]
       IN  IF currentStudy[c] = Undefined
           THEN /\ sock' = [sock EXCEPT ![c] = "closed"]
                /\ rooms' = left
                /\ emitted' = NoEvents
                /\ last' = [NoLast EXCEPT !.op = "disconnect", !.conn = c]
                /\ UNCHANGED <<up, currentStudy, pendingJoin>>
           ELSE IF socketUser[c] = Undefined
           THEN crash("disconnect", c)
           ELSE /\ sock' = [sock EXCEPT ![c] = "closed"]
                /\ rooms' = left
                /\ emitted' = [d \in Conns |->
                                 IF d # c /\ d \in socketsIn(left, sock, currentStudy[c])
                                 THEN <<UserLeft(c, currentStudy[c])>> ELSE <<>>]
                /\ last' = [NoLast EXCEPT !.op = "disconnect", !.conn = c,
                            !.study = currentStudy[c]]
                /\ UNCHANGED <<up, currentStudy, pendingJoin>>
    /\ UNCHANGED <<handshakeToken, socketUser, lastDenied>>
    /\ UNCHANGED <<credVars, dbVars, clientVars, pageVars, markerVars>>

\* The listeners of the study page (StudyDetail useEffect) on one event:
\* active-users replaces the list, user-joined adds the user unless an entry
\* with its userId is there, user-left removes every entry with its userId.
\* The list is kept as the set of its userIds.
onEvent(list, e) ==
    IF e.name = "active-users" THEN {socketUser[c] : c \in e.list}
    ELSE IF e.name = "user-joined" THEN list \cup {socketUser[e.from]}
    ELSE IF e.name = "user-left" THEN list \ {socketUser[e.from]}
    ELSE list

RECURSIVE onEvents(_, _)
onEvents(list, evs) ==
    IF evs = <<>> THEN list ELSE onEvents(onEvent(list, Head(evs)), Tail(evs))

\* the events of the handler that ran reach their clients
Flush ==
    /\ last # NoLast
    /\ last' = NoLast
    /\ emitted' = NoEvents
    /\ activeUsers' = [c \in Conns |-> onEvents(activeUsers[c], emitted[c])]
    /\ UNCHANGED <<up, sock, handshakeToken, socketUser, currentStudy, rooms,
                   pendingJoin, lastDenied>>
    /\ UNCHANGED <<credVars, dbVars, pageVars, markerVars>>

GwNext ==
    \/ \E c \in Conns, t \in GatewayTokens : Connect(c, t) /\ UNCHANGED orderVars
    \/ \E c \in Conns, s \in Studies : JoinStudyCall(c, s) /\ UNCHANGED orderVars
    \/ \E c \in Conns, s \in Studies : JoinStudyResume(c, s) /\ UNCHANGED orderVars
    \/ \E c \in Conns, s \in Studies : JoinStudyFails(c, s) /\ UNCHANGED orderVars
    \/ \E c \in Conns : LeaveStudy(c) /\ UNCHANGED orderVars
    \/ \E c \in Conns : UserActivity(c) /\ UNCHANGED orderVars
    \/ \E c \in Conns, s \in Studies \cup {Undefined}, f \in BOOLEAN :
          AddComment(c, s, f) /\ UNCHANGED orderVars
    \/ \E c \in Conns, k \in 1..MaxComments, f \in {"none", "find", "update"} :
          UpdateComment(c, k, "v1", f) /\ UNCHANGED orderVars
    \/ \E c \in Conns : Disconnect(c) /\ UNCHANGED orderVars
    \/ Flush /\ UNCHANGED orderVars

\* the same handlers with the order of receipt written down: the server
\* receives join-study / leave-study of a connection and starts its listener
ReceiveJoinStudy(c, s) ==
    /\ JoinStudyCall(c, s)
    /\ received' = [received EXCEPT ![c] = s]
ReceiveLeaveStudy(c) ==
    /\ LeaveStudy(c)
    /\ received' = [received EXCEPT ![c] = "leave-study"]
OrderNext ==
    \/ \E c \in Conns, t \in GatewayTokens : Connect(c, t) /\ UNCHANGED orderVars
    \/ \E c \in Conns, s \in Studies : ReceiveJoinStudy(c, s)
    \/ \E c \in Conns, s \in Studies : JoinStudyResume(c, s) /\ UNCHANGED orderVars
    \/ \E c \in Conns : ReceiveLeaveStudy(c)
    \/ Flush /\ UNCHANGED orderVars

\* ------------------------------------------------- annotatable document
\* AnnotatableMarkdown: a reader selects text of the rendered study and
\* attaches a comment to it.  Text is a sequence of characters; the document
\* is the sequence of text nodes under markdownRef.
Chars == {"a", "b", " "}
TextsUpTo(n) == UNION {[1..k -> Chars] : k \in 1..n}
\* Node.textContent of an element: the concatenation of its text nodes
RECURSIVE textContent(_)
textContent(nodes) ==
    IF nodes = <<>> THEN <<>> ELSE Head(nodes) \o textContent(Tail(nodes))
Documents ==
    {d \in UNION {[1..k -> TextsUpTo(MaxLen)] : k \in 1..MaxNodes} :
        Len(textContent(d)) <= MaxLen}
\* String.prototype.slice(s, e) for 0 <= s <= e
slice(t, s, e) == SubSeq(t, s + 1, IF e < Len(t) THEN e ELSE Len(t))
\* String.prototype.trim()
RECURSIVE trimStart(_)
trimStart(t) == IF t # <<>> /\ Head(t) = " " THEN trimStart(Tail(t)) ELSE t
RECURSIVE trimEnd(_)
trimEnd(t) ==
    IF t # <<>> /\ t[Len(t)] = " " THEN trimEnd(SubSeq(t, 1, Len(t) - 1)) ELSE t
trim(t) == trimEnd(trimStart(t))
\* the least element of a set of numbers that is not empty
first(S) == CHOOSE i \in S : \A j \in S : i <= j
\* offset of the first character of text node i in the text of the document
nodeStart(doc, i) == Len(textContent(SubSeq(doc, 1, i - 1)))

NoRange == [start |-> -1, end |-> -1]
Ranges(t) == {r \in [start : 0..Len(t), end : 0..Len(t)] : r.start <= r.end}
NoAnchor == [selectedText |-> <<>>, startOffset |-> -1, endOffset |-> -1]
\* Selection.toString() of a range inside the document
rangeText(r) == slice(textContent(document), r.start, r.end)

PageInit ==
    /\ selection = NoRange
    /\ selectedText = <<>>
    /\ showCommentForm = FALSE
    /\ textAnchor = NoAnchor
    /\ handled = "-"

\* the reader changes the selection (drag, double click, shift+arrow keys,
\* focus moving into the textarea of the form); no handler of the component
\* listens to that
Select(r) ==
    /\ document # <<>>
    /\ r # selection
    /\ selection' = r
    /\ handled' = "-"
    /\ UNCHANGED <<document, selectedText, showCommentForm, textAnchor>>
    /\ UNCHANGED <<credVars, gwVars, orderVars, dbVars, clientVars, markerVars>>

\* handleMouseUp
handleMouseUp ==
    /\ document # <<>>
    /\ IF selection = NoRange \/ selection.start = selection.end
          \/ trim(rangeText(selection)) = <<>>
       THEN /\ handled' = "mouse-up-ignored"
            /\ UNCHANGED <<selectedText, showCommentForm>>
       ELSE /\ selectedText' = trim(rangeText(selection))
            /\ showCommentForm' = TRUE
            /\ handled' = "mouse-up"
    /\ UNCHANGED <<document, selection, textAnchor>>
    /\ UNCHANGED <<credVars, gwVars, orderVars, dbVars, clientVars, markerVars>>

\* handleAddComment, called by the submit of the form with a comment that is
\* not blank.  The field context of the anchor is left out: it is cut from
\* the text of contentRef, which no other function of the component reads.
handleAddComment ==
    /\ showCommentForm
    /\ IF selection = NoRange
       THEN \* selection.getRangeAt(0) throws IndexSizeError
            /\ handled' = "add-comment-threw"
            /\ UNCHANGED <<selection, selectedText, showCommentForm, textAnchor>>
       ELSE /\ textAnchor' = [selectedText |-> selectedText,
                              startOffset  |-> Len(slice(textContent(document), 0, selection.start)),
                              endOffset    |-> Len(slice(textContent(document), 0, selection.start))
                                               + Len(selectedText)]
            /\ selection' = NoRange
            /\ showCommentForm' = FALSE
            /\ selectedText' = <<>>
            /\ handled' = "add-comment"
    /\ UNCHANGED document
    /\ UNCHANGED <<credVars, gwVars, orderVars, dbVars, clientVars, markerVars>>

\* the button Cancel of the form
Cancel ==
    /\ showCommentForm
    /\ showCommentForm' = FALSE
    /\ selectedText' = <<>>
    /\ selection' = NoRange
    /\ handled' = "cancel"
    /\ UNCHANGED <<document, textAnchor>>
    /\ UNCHANGED <<credVars, gwVars, orderVars, dbVars, clientVars, markerVars>>

\* String with ch put in at offset k
insertAt(t, k, ch) == SubSeq(t, 1, k) \o <<ch>> \o SubSeq(t, k + 1, Len(t))
\* the study text is edited and the component renders the new content: one
\* character is put in at offset k, inside the text node that holds offset k
\* or, at the border of two nodes, as a text node of its own.  The new nodes
\* replace the old ones, the selection does not survive.
InsertText(k, ch, ownNode) ==
    /\ document # <<>>
    /\ Len(textContent(document)) < MaxLen
    /\ k \in 0..Len(textContent(document))
    /\ IF ownNode
       THEN /\ Len(document) < MaxNodes
            /\ \E i \in 1..(Len(document) + 1) :
                  /\ k = nodeStart(document, i)
                  /\ document' = SubSeq(document, 1, i - 1) \o <<(<<ch>>)>>
                                     \o SubSeq(document, i, Len(document))
       ELSE LET i == first({j \in 1..Len(document) :
                              nodeStart(document, j) + Len(document[j]) >= k})
            IN  document' = [document EXCEPT ![i] = insertAt(@, k - nodeStart(document, i), ch)]
    /\ selection' = NoRange
    /\ handled' = "content"
    /\ UNCHANGED <<selectedText, showCommentForm, textAnchor>>
    /\ UNCHANGED <<credVars, gwVars, orderVars, dbVars, clientVars, markerVars>>

PageNext ==
    \/ \E r \in Ranges(textContent(document)) \cup {NoRange} : Select(r)
    \/ \E k \in 0..MaxLen, ch \in Chars, ownNode \in BOOLEAN : InsertText(k, ch, ownNode)
    \/ handleMouseUp
    \/ handleAddComment
    \/ Cancel

\* --------------------------------------------------- anchor resolution
\* String.prototype.indexOf(p): the least index at which p occurs, or -1
indexOf(t, p) ==
    LET at == {k \in 0..(Len(t) - Len(p)) : SubSeq(t, k + 1, k + Len(p)) = p}
    IN  IF at = {} THEN -1 ELSE CHOOSE k \in at : \A j \in at : k <= j
\* a position is the collapsed range (text node, offset in the node) whose
\* bounding rectangle the function returns; null is NotFound
NotFound == [branch |-> "none", node |-> 0, offset |-> 0]
\* calculatePositionForTextAnchor
calculatePositionForTextAnchor(doc, a) ==
    LET fullText == textContent(doc)
        \* the tree walker stops at the first text node that reaches endOffset
        reached == {i \in 1..Len(doc) : nodeStart(doc, i) + Len(doc[i]) >= a.endOffset}
        \* the text nodes whose own text holds selectedText
        holding == {i \in 1..Len(doc) : indexOf(doc[i], a.selectedText) # -1}
    IN  IF doc = <<>> THEN NotFound
        ELSE IF slice(fullText, a.startOffset, a.endOffset) = a.selectedText /\ reached # {}
        THEN LET i == first(reached)
                 startNodeOffset == a.endOffset - nodeStart(doc, i)
             IN  [branch |-> "exact", node |-> i,
                  offset |-> IF startNodeOffset < Len(doc[i]) THEN startNodeOffset
                             ELSE Len(doc[i])]
        ELSE IF holding # {}
        THEN LET i == first(holding)
             IN  [branch |-> "fallback", node |-> i,
                  offset |-> indexOf(doc[i], a.selectedText) + Len(a.selectedText)]
        ELSE NotFound

\* ------------------------------------------------------ comment markers
\* StudyWeek keeps the comments of the week that carry a text anchor and
\* hands them to AnnotatableMarkdown, which groups them into markers.
\* the text of the week shown while comments are grouped
StudyText == <<(<<"a">>), (<<"b">>)>>
\* anchors the comments of the week carry: one of the span [0,1) of the
\* text, and one written for an earlier text, whose selectedText the text
\* no longer holds
FreshAnchor == [selectedText |-> <<"a">>, startOffset |-> 0, endOffset |-> 1]
StaleAnchor == [selectedText |-> <<"b", "b">>, startOffset |-> 1, endOffset |-> 3]
\* column position of a comment; NoAnchor stands for a comment whose position
\* is null
Positions == {NoAnchor, FreshAnchor, StaleAnchor}
\* position: { top: 0, left: 0 }
Origin == [branch |-> "origin", node |-> 0, offset |-> 0]

\* the template string `${startOffset}-${endOffset}`: two decimal numbers
\* joined by "-" name one pair of numbers only
markerKey(a) == <<a.startOffset, a.endOffset>>

addToMarkersNoMerge(ms, c) ==
    IF c.position = NoAnchor THEN ms
    ELSE Append(ms, [id |-> markerKey(c.position), comments |-> <<c>>,
                     textAnchor |-> c.position, position |-> Origin])

\* the body of comments.forEach in the grouping effect, on the values of
\* markersMap in insertion order
addToMarkers(ms, c) ==
    IF c.position = NoAnchor THEN ms
    ELSE IF \E i \in 1..Len(ms) : ms[i].id = markerKey(c.position)
    THEN LET i == CHOOSE j \in 1..Len(ms) : ms[j].id = markerKey(c.position)
         IN  [ms EXCEPT ![i].comments = Append(@, c)]
    ELSE Append(ms, [id |-> markerKey(c.position), comments |-> <<c>>,
                     textAnchor |-> c.position, position |-> Origin])
RECURSIVE groupFrom(_, _)
groupFrom(ms, list) ==
    IF list = <<>> THEN ms ELSE groupFrom(addToMarkers(ms, Head(list)), Tail(list))
\* Array.from(markersMap.values()) after the loop
groupByAnchor(list) == groupFrom(<<>>, list)

withPositionsResolvedOnly(ms, doc) ==
    LET resolves(m) == calculatePositionForTextAnchor(doc, m.textAnchor) # NotFound
        kept == SelectSeq(ms, resolves)
    IN  [i \in 1..Len(kept) |->
            [kept[i] EXCEPT !.position =
                calculatePositionForTextAnchor(doc, kept[i].textAnchor)]]

\* markers.map(...) inside the timer callback: every marker gets the position
\* of its anchor in the document now shown, or the origin when there is none
withPositions(ms, doc) ==
    [i \in 1..Len(ms) |->
        LET p == calculatePositionForTextAnchor(doc, ms[i].textAnchor)
        IN  [ms[i] EXCEPT !.position = IF p = NotFound THEN Origin ELSE p]]

\* Array.from(new Map(comments.map(c => [c.author.id, c.author])).values()):
\* the authors in the order in which each first appears
RECURSIVE uniqueUsers(_)
uniqueUsers(cs) ==
    IF cs = <<>> THEN <<>>
    ELSE LET before == uniqueUsers(SubSeq(cs, 1, Len(cs) - 1))
             u == cs[Len(cs)].author
         IN  IF \E i \in 1..Len(before) : before[i] = u THEN before
             ELSE Append(before, u)
\* groupComments[groupComments.length - 1], shown as "Latest"
latestComment(cs) == cs[Len(cs)]

\* orderBy: { createdAt: 'desc' }
descending(rows) == [i \in 1..Len(rows) |-> rows[Len(rows) + 1 - i]]
hasTextAnchor(c) == c.position # NoAnchor
\* textAnchoredComments of the answer of router.get('/week/:weekId')
textAnchoredComments(rows) == SelectSeq(descending(rows), hasTextAnchor)
\* the row prisma.comment.create adds
newComment(rows, u, pos) ==
    [id |-> Len(rows) + 1, author |-> u, createdAt |-> Len(rows) + 1, position |-> pos]

\* the loader fetches the comments of the week and StudyWeek is mounted: the
\* grouping effect of the new AnnotatableMarkdown runs once
LoadWeek ==
    /\ commentList' = textAnchoredComments(weekComments)
    /\ commentMarkers' = <<>>
    /\ timers' = <<groupByAnchor(commentList')>>
    /\ UNCHANGED weekComments
    /\ UNCHANGED <<credVars, gwVars, orderVars, dbVars, clientVars, pageVars>>

\* router.post('/') called from elsewhere (another member, another tab): the
\* row is stored and this page is not told
PostComment(u, pos) ==
    /\ Len(weekComments) < MaxList
    /\ weekComments' = Append(weekComments, newComment(weekComments, u, pos))
    /\ UNCHANGED <<commentList, commentMarkers, timers>>
    /\ UNCHANGED <<credVars, gwVars, orderVars, dbVars, clientVars, pageVars>>

\* handleAddTextAnchoredComment and the effect on fetcher.data: the comment
\* is stored and appended to the list, and the grouping effect runs again
AddInlineComment(u, anchor) ==
    /\ Len(weekComments) < MaxList
    /\ anchor # NoAnchor
    /\ weekComments' = Append(weekComments, newComment(weekComments, u, anchor))
    /\ commentList' = Append(commentList, newComment(weekComments, u, anchor))
    /\ timers' = Append(timers, groupByAnchor(commentList'))
    /\ UNCHANGED commentMarkers
    /\ UNCHANGED <<credVars, gwVars, orderVars, dbVars, clientVars, pageVars>>

\* the callbacks run in any order
FireTimerAnyOrder ==
    /\ timers # <<>>
    /\ \E i \in 1..Len(timers) :
          /\ commentMarkers' = withPositions(timers[i], document)
          /\ timers' = SubSeq(timers, 1, i - 1) \o SubSeq(timers, i + 1, Len(timers))
    /\ UNCHANGED <<weekComments, commentList>>
    /\ UNCHANGED <<credVars, gwVars, orderVars, dbVars, clientVars, pageVars>>

\* the oldest callback of setTimeout runs (all are set with the same delay,
\* so they run in the order they were set)
FireTimer ==
    /\ timers # <<>>
    /\ commentMarkers' = withPositions(Head(timers), document)
    /\ timers' = Tail(timers)
    /\ UNCHANGED <<weekComments, commentList>>
    /\ UNCHANGED <<credVars, gwVars, orderVars, dbVars, clientVars, pageVars>>

MarkerNext ==
    \/ LoadWeek
    \/ \E u \in Users, pos \in Positions : PostComment(u, pos)
    \/ \E u \in Users, anchor \in Positions : AddInlineComment(u, anchor)
    \/ FireTimer

\* ---------------------------------------------------------- specifications
\* no study page is open
NoMarkers ==
    weekComments = <<>> /\ commentList = <<>> /\ commentMarkers = <<>> /\ timers = <<>>
NoPage == document = <<>> /\ PageInit /\ NoMarkers
Init ==
    /\ CredInit /\ GwInit /\ comments = {} /\ activeUsers = [c \in Conns |-> {}]
    /\ NoPage
Next == CredNext

\* The gateway starts on a database in which both users are registered,
\* u1 has logged in at time 0 (a state Register reaches), so that a client
\* can present a credential that verifies, and u1 has posted one comment on
\* study s1 through the comments route (router.post('/')).
GatewayInit ==
    /\ now = 0
    /\ accessSecret = "k1"
    /\ refreshSecret = "k2"
    /\ users = Users
    /\ sessions = {[id |-> 1, userId |-> "u1", expiresAt |-> SessionTTL]}
    /\ nextSid = 2
    /\ minted = mintedBy(generateTokens("u1", 1))
    /\ resp = NoResp
    /\ GwInit
    /\ comments = {[id |-> 1, authorId |-> "u1", studyId |-> "s1", content |-> "v0"]}
    /\ activeUsers = [c \in Conns |-> {}]
    /\ NoPage
\* a study page showing one rendered document, before any selection
AnchorInit ==
    /\ CredInit /\ GwInit /\ comments = {} /\ activeUsers = [c \in Conns |-> {}]
    /\ document \in Documents
    /\ PageInit
    /\ NoMarkers
\* the page of a week without comments has just been mounted: the grouping
\* effect has run on the empty list and its callback waits
MarkerInit ==
    /\ CredInit /\ GwInit /\ comments = {} /\ activeUsers = [c \in Conns |-> {}]
    /\ document = StudyText
    /\ PageInit
    /\ weekComments = <<>>
    /\ commentList = <<>>
    /\ commentMarkers = <<>>
    /\ timers = <<(<<>>)>>
\* the credential manager: HTTP routes and the handshake of the main namespace
Spec == Init /\ [][Next]_vars
\* the realtime gateway on the namespace /study
GatewaySpec == GatewayInit /\ [][GwNext]_vars
\* anchor creation in AnnotatableMarkdown
AnchorSpec == AnchorInit /\ [][PageNext]_vars
\* grouping of the comments of a week into markers
MarkerSpec == MarkerInit /\ [][MarkerNext]_vars
\* join-study and leave-study of the gateway, with the order of receipt
OrderSpec == GatewayInit /\ [][OrderNext]_vars

\* ------------------------------------------------------------ properties
HttpRoutes == {"me", "logout"}

\* C1: a request is answered with a refreshed pair only if, when refresh
\* looked it up, the session named by the refresh token was in the store and
\* not past its expiresAt; when the session is absent or expired the refresh
\* fails, nothing is signed and the request is answered 401, whatever the
\* state of the refresh token itself.
RefreshOnlyForLiveSession ==
    [][resp'.route \in HttpRoutes =>
         /\ resp'.newTokens.ok => sessionUsable(resp'.refreshToken.sessionId)
         /\ (resp'.refreshTried /\ ~sessionUsable(resp'.refreshToken.sessionId))
               => (~resp'.newTokens.ok /\ minted' = minted /\ resp'.status = 401)]_vars

\* a refresh token that still verifies was refused because its session had
\* been deleted
RefreshRefusedForDeletedSession ==
    /\ resp.route \in HttpRoutes
    /\ resp.refreshTried
    /\ ~resp.newTokens.ok
    /\ resp.refreshToken.type = "refresh"
    /\ jwtVerify(resp.refreshToken, refreshSecret)
    /\ findSession(resp.refreshToken.sessionId) = {}

\* C2: while a session is in the store and not expired, every refresh token
\* issued for it (the original or a re-issued one) is refreshed successfully
\* and the new pair carries the sessionId and userId of the token presented;
\* a refresh creates no session.
sameBinding(rt, p) ==
    /\ p.ok
    /\ p.accessToken.sessionId = rt.sessionId
    /\ p.refreshToken.sessionId = rt.sessionId
    /\ p.accessToken.userId = rt.userId
    /\ p.refreshToken.userId = rt.userId
    /\ p.accessToken.type = "access"
    /\ p.refreshToken.type = "refresh"

refreshRepeatable ==
    \A rt \in minted :
        (rt.type = "refresh" /\ sessionUsable(rt.sessionId))
            => sameBinding(rt, refreshTokens(rt))

RefreshKeepsSession ==
    [][/\ refreshRepeatable'
       /\ (resp'.route \in HttpRoutes /\ resp'.newTokens.ok) =>
             /\ sameBinding(resp'.refreshToken, resp'.newTokens)
             /\ resp'.sessionId = resp'.refreshToken.sessionId
             /\ sessions' \subseteq sessions
             /\ nextSid' = nextSid]_vars

\* a refresh succeeded on a refresh token that was itself the product of a
\* refresh of the same session
SecondRefreshInSequence ==
    /\ resp.route = "me"
    /\ resp.newTokens.ok
    /\ \E s \in sessions :
          /\ s.id = resp.sessionId
          /\ resp.refreshToken.exp - RefreshTTL > s.expiresAt - SessionTTL
          /\ resp.newTokens.refreshToken.exp > resp.refreshToken.exp

\* C3: once a session is deleted, no refresh token of it is refreshed any
\* more, while every access token of it that has not expired is still
\* accepted by authMiddleware and by the handshake middleware; a logout
\* deletes no session but the one of the request.
revoked(sid) == sid \in 1..(nextSid - 1) /\ findSession(sid) = {}

revokedTokens ==
    \A t \in minted :
        revoked(t.sessionId) =>
            /\ t.type = "refresh" => ~refreshTokens(t).ok
            /\ (t.type = "access" /\ now < t.exp) =>
                  /\ authMiddleware(t, NoToken).status = 200
                  /\ authMiddleware(t, NoToken).userId = t.userId
                  /\ socketAuth(t).ok

RevokeEndsRefreshOnly ==
    [][/\ revokedTokens'
       /\ resp'.route = "logout" =>
             \A s \in sessions \ sessions' : s.id = resp'.sessionId]_vars

\* an access token was accepted after its session was deleted, while another
\* session of the same user is still in the store
AccessAcceptedAfterRevoke ==
    /\ resp.route = "me"
    /\ resp.status = 200
    /\ ~resp.refreshTried
    /\ revoked(resp.sessionId)
    /\ \E s \in sessions : s.userId = resp.userId

\* C4: a request whose access cookie does not verify (expired, invalid or
\* absent) and whose refresh cookie names a usable session is authenticated
\* with a new pair.
RefreshTriedBeforeReject ==
    [][\A at \in Presentable, rt \in minted :
          (/\ Me(at, rt)
           /\ ~jwtVerify(at, accessSecret)
           /\ rt.type = "refresh"
           /\ jwtVerify(rt, refreshSecret)
           /\ sessionUsable(rt.sessionId))
             => (resp'.status = 200 /\ resp'.newTokens.ok)]_vars

\* C5: a handler of the gateway runs only for a connection whose handshake
\* carried an access token that verifies for an existing user.
HandlersOnlyAfterHandshake ==
    last.op \in {"join-study-call", "join-study", "leave-study"}
        => socketAuth(handshakeToken[last.conn]).ok

\* C6: refresh honours only tokens of kind 'refresh', and the access
\* verification of requests and of the handshake honours no token of kind
\* 'refresh'.
KindChecked ==
    /\ (resp.route \in HttpRoutes /\ resp.newTokens.ok)
          => resp.refreshToken.type = "refresh"
    /\ \A t \in minted :
          t.type = "refresh" =>
              /\ authMiddleware(t, NoToken).status # 200
              /\ ~socketAuth(t).ok

\* C7 as claimed: after a refresh attempt with a token that verifies, no
\* expired record of its session is left in the store.
ExpiredSessionDeletedByRefresh ==
    (/\ resp.route \in HttpRoutes
     /\ resp.refreshTried
     /\ jwtVerify(resp.refreshToken, refreshSecret))
        => \A s \in findSession(resp.refreshToken.sessionId) : ~(s.expiresAt < now)

\* C7 as amended: the session store changes only by the creation of one
\* session at login or registration and by the deletion of the request's
\* session at logout; a refresh, successful or not, leaves every record as
\* it is.
SessionsLeaveOnlyOnLogout ==
    [][sessions' # sessions =>
         \/ /\ resp'.route \in {"login", "register"}
            /\ \E new \in sessions' \ sessions : sessions' = sessions \cup {new}
         \/ /\ resp'.route = "logout"
            /\ resp'.status = 200
            /\ sessions' = {s \in sessions : s.id # resp'.sessionId}]_vars

\* a refresh was refused because the session was past expiresAt, and the
\* record is still in the store
ExpiredSessionKept ==
    /\ resp.route \in HttpRoutes
    /\ resp.refreshTried
    /\ ~resp.newTokens.ok
    /\ jwtVerify(resp.refreshToken, refreshSecret)
    /\ \E s \in findSession(resp.refreshToken.sessionId) : s.expiresAt < now

\* the principal of a connection is a member of the group of the study
authorized(c, s) ==
    /\ socketAuth(handshakeToken[c]).ok
    /\ <<handshakeToken[c].userId, s>> \in groupMembers

\* C8: a join of an authorized connection that passes the membership check
\* makes it a member of the room, delivers one user-joined to every other
\* member and none to the joiner, and delivers to the joiner alone the
\* active-users list of all members.
JoinAnnounces ==
    (/\ last.op = "join-study"
     /\ last.hasAccess
     /\ authorized(last.conn, last.study)
     /\ sock[last.conn] = "open")
        => /\ last.conn \in rooms[last.study]
           /\ \A d \in Conns \ {last.conn} :
                 emitted[d] = IF d \in socketsIn(rooms, sock, last.study)
                              THEN <<UserJoined(last.conn, last.study)>>
                              ELSE <<>>
           /\ emitted[last.conn] =
                 <<ActiveUsers(last.study, socketsIn(rooms, sock, last.study))>>

\* C9: a join whose membership check fails delivers one error to the
\* requester and nothing to anyone else and changes no room state; a later
\* join of that connection to a study it is authorized for succeeds.
JoinRejectionScoped ==
    [][last'.op = "join-study" =>
         /\ ~last'.hasAccess =>
               /\ emitted' = [d \in Conns |->
                     IF d = last'.conn /\ sock[d] = "open"
                     THEN <<ErrorEvent("Access denied to study")>> ELSE <<>>]
               /\ rooms' = rooms
               /\ currentStudy' = currentStudy
               /\ sock' = sock
         /\ (/\ last'.hasAccess
             /\ last'.conn = lastDenied
             /\ sock[last'.conn] = "open"
             /\ authorized(last'.conn, last'.study)) =>
               /\ ~last'.threw
               /\ last'.conn \in rooms'[last'.study]
               /\ \E e \in {ActiveUsers(last'.study, socketsIn(rooms', sock', last'.study))} :
                     emitted'[last'.conn] = <<e>>]_vars

\* C10: every connection is in at most one study room.
AtMostOneRoom ==
    \A c \in Conns : Cardinality({s \in Studies : c \in rooms[s]}) <= 1

\* C11: when a connection that is in a room passes the membership check of
\* a further join, every other member of the room it was in is delivered a
\* user-left of that connection for that room, ahead of anything else the
\* join delivers.
RejoinLeavesFirst ==
    [][(/\ last'.op = "join-study"
        /\ last'.hasAccess
        /\ sock[last'.conn] = "open"
        /\ currentStudy[last'.conn] # Undefined) =>
          \A d \in socketsIn(rooms, sock, currentStudy[last'.conn]) \ {last'.conn} :
             /\ Len(emitted'[d]) >= 1
             /\ emitted'[d][1] = UserLeft(last'.conn, currentStudy[last'.conn])]_vars

\* C12: leave-study or a disconnect of a connection that is in no room
\* delivers nothing to anyone and leaves the rooms, every currentStudy, the
\* suspended joins and every other connection as they were.
inNoRoom(c) == \A s \in Studies : c \notin rooms[s]

IdleLeaveIsSilent ==
    [][(/\ last'.op \in {"leave-study", "disconnect"}
        /\ inNoRoom(last'.conn)) =>
          /\ emitted' = NoEvents
          /\ rooms' = rooms
          /\ currentStudy' = currentStudy
          /\ pendingJoin' = pendingJoin
          /\ up'
          /\ \A d \in Conns \ {last'.conn} : sock'[d] = sock[d]
          /\ sock'[last'.conn] =
                IF last'.op = "disconnect" THEN "closed" ELSE sock[last'.conn]]_vars

\* a connection whose only join was rejected has disconnected while another
\* connection is in a room
IdleDisconnectBesideMember ==
    /\ last.op = "disconnect"
    /\ lastDenied = last.conn
    /\ inNoRoom(last.conn)
    /\ \E d \in Conns \ {last.conn}, s \in Studies : d \in socketsIn(rooms, sock, s)

\* C13: leave-study or a disconnect of a connection that is in room R
\* delivers exactly one user-left of it for R to every other member of R
\* and none to itself, and afterwards the connection is not in R.
timesDelivered(ev, d, e) == Cardinality({i \in DOMAIN ev[d] : ev[d][i] = e})

LeaveAnnouncedOnce ==
    [][last'.op \in {"leave-study", "disconnect"} =>
          /\ emitted'[last'.conn] = <<>>
          /\ \A s \in Studies :
                last'.conn \in rooms[s] =>
                   /\ last'.conn \notin rooms'[s]
                   /\ \A d \in socketsIn(rooms, sock, s) \ {last'.conn} :
                         timesDelivered(emitted', d, UserLeft(last'.conn, s)) = 1]_vars

\* C14: a user-activity of a connection delivers one user-presence to every
\* other connection that shares a room with it and nothing to anyone else
\* (nothing at all when it is in no room), and changes no room, no
\* currentStudy and no connection.
ActivityForwarded ==
    [][last'.op = "user-activity" =>
          /\ rooms' = rooms
          /\ currentStudy' = currentStudy
          /\ sock' = sock
          /\ \A d \in Conns :
                IF /\ d # last'.conn
                   /\ \E s \in Studies : {d, last'.conn} \subseteq socketsIn(rooms, sock, s)
                THEN /\ Len(emitted'[d]) = 1
                     /\ emitted'[d][1].name = "user-presence"
                     /\ emitted'[d][1].from = last'.conn
                ELSE emitted'[d] = <<>>]_vars

\* C15: membership is validated before a comment is persisted or broadcast:
\* an add-comment naming a study of which the connection's principal is not
\* a member, or whose room the connection is not in, is turned away before
\* any write to the comments table is attempted, creates no row and delivers
\* no comment-added.
CommentNeedsMembership ==
    [][(/\ last'.op = "add-comment"
        /\ last'.study # Undefined
        /\ ~(authorized(last'.conn, last'.study) /\ last'.conn \in rooms[last'.study])) =>
          /\ last'.persist = "-"
          /\ comments' = comments
          /\ \A d \in Conns :
                \A i \in DOMAIN emitted'[d] : emitted'[d][i].name # "comment-added"]_vars

\* C16: a comment mutation that goes through is announced to the whole room,
\* its sender included: an add-comment naming study R, sent by a connection
\* that is in room R and whose principal is a member of R while the database
\* is reachable, is persisted, and every persisted add-comment or
\* update-comment delivers one comment-added / comment-updated to the sender
\* and to every member of the comment's room.
commentRoom(rows, id) == {k.studyId : k \in {k \in rows : k.id = id}}

OnlyAuthorUpdates ==
    [][last'.op = "update-comment" =>
          /\ comments' # comments =>
                \E k \in comments :
                   /\ k.id = last'.comment
                   /\ k.authorId = socketUser[last'.conn]
                   /\ comments' = (comments \ {k}) \cup {[k EXCEPT !.content = "v1"]}
          /\ (~last'.threw /\
              \A k \in comments : k.id = last'.comment => k.authorId # socketUser[last'.conn]) =>
                /\ comments' = comments
                /\ emitted' = toSelf(last'.conn, ErrorEvent("Cannot update this comment"))]_vars

\* an update-comment naming the comment of another user was answered while
\* a second connection was in a room with the sender
ForeignUpdateRefused ==
    /\ last.op = "update-comment"
    /\ ~last.threw
    /\ \E k \in comments : k.id = last.comment /\ k.authorId # socketUser[last.conn]
    /\ \E d \in Conns \ {last.conn}, s \in Studies :
          s = currentStudy[last.conn] /\ {d, last.conn} \subseteq socketsIn(rooms, sock, s)

\* C18: when the database call of a join-study, add-comment or
\* update-comment handler throws, the sender (if still connected) is
\* delivered one error and nobody else anything, no connection is closed,
\* no room, currentStudy or comment changes, the other suspended joins stay
\* suspended and the process keeps running, so that later events are
\* handled.
collaboratorFailed(l) ==
    \/ l.op = "join-study-error"
    \/ (l.op \in {"add-comment", "update-comment"} /\ l.threw)

FailureIsScoped ==
    [][collaboratorFailed(last') =>
          /\ \A d \in Conns \ {last'.conn} : emitted'[d] = <<>>
          /\ sock[last'.conn] = "open" =>
                /\ Len(emitted'[last'.conn]) = 1
                /\ emitted'[last'.conn][1].name = "error"
          /\ up'
          /\ sock' = sock
          /\ rooms' = rooms
          /\ currentStudy' = currentStudy
          /\ comments' = comments
          /\ \A d \in Conns :
                pendingJoin'[d] = IF d = last'.conn /\ last'.op = "join-study-error"
                                  THEN pendingJoin[d] \ {last'.study}
                                  ELSE pendingJoin[d]]_vars

\* the membership query of a connection that is in a room with another
\* connection has failed while a second join of it is still suspended
JoinFailedInCompany ==
    /\ last.op = "join-study-error"
    /\ pendingJoin[last.conn] # {}
    /\ \E d \in Conns \ {last.conn}, s \in Studies :
          {d, last.conn} \subseteq socketsIn(rooms, sock, s)

\* the user a connection's handshake authenticates
principal(c) ==
    IF socketAuth(handshakeToken[c]).ok THEN handshakeToken[c].userId ELSE Undefined

\* C19: when two connections of one principal are in room R and one of them
\* leaves or disconnects, the other stays a member of R, and the principal
\* is in the active-user list of every other member of R once the events of
\* the step have reached it.
PresencePerConnection ==
    [][last'.op \in {"leave-study", "disconnect"} =>
          \A s \in Studies :
             \A e \in socketsIn(rooms, sock, s) \ {last'.conn} :
                (/\ last'.conn \in socketsIn(rooms, sock, s)
                 /\ principal(e) # Undefined
                 /\ principal(e) = principal(last'.conn)) =>
                   /\ e \in socketsIn(rooms', sock', s)
                   /\ \A d \in socketsIn(rooms, sock, s) \ {last'.conn, e} :
                         principal(e) \in onEvents(activeUsers[d], emitted'[d])]_vars

\* C20: every anchor that anchor creation hands to onAddComment carries the
\* text the document holds between its two offsets at that moment:
\* selectedText = documentText[startOffset:endOffset], also when the selection
\* began or ended with whitespace and when the range changed between the
\* mouse-up and the submit.
AnchorMatchesDocument ==
    [][handled' = "add-comment" =>
          textAnchor'.selectedText =
              slice(textContent(document'), textAnchor'.startOffset, textAnchor'.endOffset)]_vars

\* the position of offset e of the text of the document: the first text
\* node that reaches e and the offset of e inside it
positionOf(doc, e) ==
    LET i == first({k \in 1..Len(doc) : nodeStart(doc, k) + Len(doc[k]) >= e})
    IN  [node |-> i, offset |-> e - nodeStart(doc, i)]
\* the span of the text a selection r stands for once its blanks at both
\* ends are left out
trimmedSpan(r) ==
    LET t == rangeText(r)
        lead == Len(t) - Len(trimStart(t))
    IN  [start |-> r.start + lead, end |-> r.start + lead + Len(trim(t))]

\* C21: round trip.  When an anchor is created for the span the reader
\* selected (the selection is the one the mouse-up captured), resolving it
\* against the same document takes the exact-offset branch and gives the
\* position of the end of that span, never NotFound and never the position
\* of another occurrence of the text.
RoundTrip ==
    [][(handled' = "add-comment" /\ selectedText = trim(rangeText(selection))) =>
          LET p == calculatePositionForTextAnchor(document, textAnchor')
              q == positionOf(document, trimmedSpan(selection).end)
          IN  p.branch = "exact" /\ p.node = q.node /\ p.offset = q.offset]_vars

\* the anchor holds for the text: it is an anchor of the span [s,e) of it
anchorOf(a, t) ==
    /\ a # NoAnchor
    /\ a.selectedText # <<>>
    /\ slice(t, a.startOffset, a.endOffset) = a.selectedText
\* text u is text t with something put in at or before offset s
insertedBefore(t, u, s) ==
    /\ Len(u) > Len(t)
    /\ slice(u, s + Len(u) - Len(t), Len(u)) = slice(t, s, Len(t))

\* C22: when text is put into the document before offset s after an anchor
\* for [s,e) was created, resolving the anchor against the new document
\* fails the exact-offset test and the fallback search finds selectedText
\* (which still stands verbatim in the new text, behind the insertion).
InsertionFallsBack ==
    [][(/\ handled' = "content"
        /\ anchorOf(textAnchor, textContent(document))
        /\ insertedBefore(textContent(document), textContent(document'),
                          textAnchor.startOffset)) =>
          calculatePositionForTextAnchor(document', textAnchor).branch = "fallback"]_vars

\* C23: when the exact-offset test fails, the result is the position of the
\* end of the first occurrence of selectedText in the text of the document,
\* and NotFound exactly when selectedText stands nowhere in that text, also
\* when the occurrence runs over more than one text node.
FallbackFindsFirst ==
    (/\ textAnchor # NoAnchor
     /\ document # <<>>
     /\ slice(textContent(document), textAnchor.startOffset, textAnchor.endOffset)
           # textAnchor.selectedText) =>
        LET p == calculatePositionForTextAnchor(document, textAnchor)
            k == indexOf(textContent(document), textAnchor.selectedText)
            q == positionOf(document, k + Len(textAnchor.selectedText))
        IN  IF k = -1 THEN p = NotFound
            ELSE p.branch = "fallback" /\ p.node = q.node /\ p.offset = q.offset

\* the comments of a list that carry the pair of offsets k, in list order
withKey(list, k) ==
    LET carries(c) == c.position # NoAnchor /\ markerKey(c.position) = k
    IN  SelectSeq(list, carries)
anchorKeys(list) ==
    {markerKey(list[i].position) : i \in {j \in 1..Len(list) : list[j].position # NoAnchor}}
\* every order of the elements of a sequence
orders(seq) == {[i \in 1..Len(seq) |-> seq[f[i]]] : f \in Permutations(1..Len(seq))}
elements(seq) == {seq[i] : i \in 1..Len(seq)}

\* C24: grouping N comments that all carry the same pair (startOffset,
\* endOffset) gives exactly one marker with all N comments, and the marker has
\* as many participants as the comments have distinct authors, in whatever
\* order the comments are listed.
OneMarkerPerPair ==
    \A k \in anchorKeys(commentList) :
        \A list \in orders(withKey(commentList, k)) :
            LET ms == groupByAnchor(list)
            IN  /\ Len(ms) = 1
                /\ Len(ms[1].comments) = Len(list)
                /\ elements(ms[1].comments) = elements(list)
                /\ Len(uniqueUsers(ms[1].comments))
                      = Cardinality({list[i].author : i \in 1..Len(list)})
\* three comments of two authors on one pair, fetched and appended, are shown
\* as one marker
ThreeOnOneMarker ==
    /\ Len(commentList) = 3
    /\ commentList[1].id > commentList[2].id
    /\ Len(commentMarkers) = 1
    /\ Len(commentMarkers[1].comments) = 3
    /\ Len(uniqueUsers(commentMarkers[1].comments)) = 2

\* the comments of a sequence, oldest first
byCreation(cs) ==
    CHOOSE s \in orders(cs) : \A i \in 1..(Len(s) - 1) : s[i].createdAt < s[i + 1].createdAt

\* C25: the participants of a marker are its authors without duplicates, in
\* the order of each author's first comment on the anchor by creation time
\* (after A comments and B then comments on the same anchor: [A, B]), in
\* whatever order the list was fetched or appended.
ParticipantsInCreationOrder ==
    \A i \in 1..Len(commentMarkers) :
        uniqueUsers(commentMarkers[i].comments)
            = uniqueUsers(byCreation(commentMarkers[i].comments))

\* C26: the comment shown as the latest of a group is the comment of the
\* group with the greatest createdAt, in whatever order the comments arrived
\* (fetched newest first, then appended after being added).
LatestIsNewest ==
    LET groups == groupByAnchor(commentList)
    IN  \A i \in 1..Len(groups) :
            \A j \in 1..Len(groups[i].comments) :
                groups[i].comments[j].createdAt
                    <= latestComment(groups[i].comments).createdAt

settled(c) == up /\ last = NoLast /\ sock[c] = "open" /\ pendingJoin[c] = {}

\* C28: the events of one connection take effect in the order of receipt.
\* Once its listeners have finished, a connection whose last event was
\* leave-study is in no room, and a connection whose last event was
\* join-study of a study it may enter is in that study, whatever the order
\* in which the membership checks answered.
ReceiptOrderDecides ==
    \A c \in Conns :
        settled(c) =>
            /\ received[c] = "leave-study" => \A s \in Studies : c \notin rooms[s]
            /\ (received[c] \in Studies /\ verifyStudyAccess(socketUser[c], received[c]))
                   => currentStudy[c] = received[c]

\* the places <<marker, index>> at which comment c stands in the markers ms
placesOf(ms, c) ==
    {p \in UNION {{<<m, j>> : j \in 1..Len(ms[m].comments)} : m \in 1..Len(ms)} :
        ms[p[1]].comments[p[2]] = c}
\* the markers hold exactly the comments of the list, each once, under the
\* pair of offsets of its own anchor
partitions(ms, list) ==
    /\ \A i \in 1..Len(list) :
          /\ Cardinality(placesOf(ms, list[i])) = 1
          /\ \A p \in placesOf(ms, list[i]) : ms[p[1]].id = markerKey(list[i].position)
    /\ \A m \in 1..Len(ms) : elements(ms[m].comments) \subseteq elements(list)
    /\ \A m, n \in 1..Len(ms) : ms[m].id = ms[n].id => m = n

\* C29: grouping loses and invents nothing.  Every comment of the list that
\* carries a text anchor is in exactly one marker, the one of its pair
\* (startOffset, endOffset); once the deferred computation has run the marker
\* is displayed whether or not the anchor resolves; comments without a text
\* anchor are in no marker.
GroupingLosesNothing ==
    /\ partitions(groupByAnchor(commentList), commentList)
    /\ timers = <<>> => partitions(commentMarkers, commentList)
    /\ \A i \in 1..Len(weekComments) :
          weekComments[i].position = NoAnchor =>
              /\ placesOf(groupByAnchor(commentList), weekComments[i]) = {}
              /\ placesOf(commentMarkers, weekComments[i]) = {}
\* a stale anchor is displayed at the origin beside a resolved one, while the
\* week also has a comment without anchor
StaleMarkerDisplayed ==
    /\ timers = <<>>
    /\ Len(commentMarkers) = 2
    /\ \E m \in 1..2 : /\ commentMarkers[m].textAnchor = StaleAnchor
                       /\ commentMarkers[m].position = Origin
    /\ \E m \in 1..2 : commentMarkers[m].position.branch = "exact"
    /\ \E i \in 1..Len(weekComments) : weekComments[i].position = NoAnchor

\* the markers shown are the groups of the list, whatever their positions
sameGroups(ms, gs) ==
    /\ Len(ms) = Len(gs)
    /\ \A i \in 1..Len(ms) : ms[i].id = gs[i].id /\ ms[i].comments = gs[i].comments

TypeOK == now \in 0..MaxTime
====
